---------------------------- MODULE Spec2Model ----------------------------
(***************************************************************************)
(* Model of the research pipeline of app/agent.py: the source registry     *)
(* callback, the citation rewriting callback, the escalation checker and   *)
(* the sequencing of the pipeline's agents over one session.               *)
(*                                                                         *)
(* Python values.  A str is a sequence of one-character strings.  A value  *)
(* that may be None is a sequence of length 0 (None) or 1 (the value).     *)
(* A dict is a function whose DOMAIN is the set of its keys.  A float      *)
(* confidence c is the integer 100 * c.                                    *)
(***************************************************************************)
EXTENDS Integers, Sequences, FiniteSets, TLC

VARIABLES
    state,          \* session.state: dict from key to value
    events,         \* session.events: the events of the session, oldest first
    pc,             \* the agent of the pipeline that runs next
    max_iterations, \* LoopAgent.max_iterations of iterative_refinement_loop
    times_looped,   \* completed iterations of the loop in the current run
    loop,           \* "IDLE", "RUNNING", "ESCALATED" or "EXHAUSTED"
    error,          \* the exception that ended the current run, or "none"
    run,            \* number of pipeline runs started in this session
    hist            \* history of the current run and of the callbacks

vars == <<state, events, pc, max_iterations, times_looped, loop, error, run, hist>>

\* ------------------------------------------------------------------ bounds

MaxIterationsBound == 3   \* max_iterations ranges over 1..MaxIterationsBound
MaxRuns == 2              \* pipeline runs per session
MaxGroundedEvents == 2    \* events with grounding metadata per session
MaxEvents == 3            \* events of a session of RegistrySpec
MaxCollects == 2          \* callback invocations of a session of RegistrySpec
MaxPieces == 3            \* pieces of a composed report of RewriteSpec

\* ------------------------------------------------------------ Python values

None == <<>>
Some(x) == <<x>>
OrEmpty(o) == IF o = None THEN <<>> ELSE o[1]          \* o or []

DigitChars == <<"0", "1", "2", "3", "4", "5", "6", "7", "8", "9">>

RECURSIVE Decimal(_)
Decimal(n) ==                                          \* str(n), n >= 0
    IF n < 10 THEN <<DigitChars[n + 1]>>
    ELSE Decimal(n \div 10) \o <<DigitChars[(n % 10) + 1]>>

PyStr(o) == IF o = None THEN <<"N", "o", "n", "e">> ELSE o[1]   \* f"{o}"

DictGet(d, k, default) == IF k \in DOMAIN d THEN d[k] ELSE default
DictPut(d, k, v) == [x \in DOMAIN d \cup {k} |-> IF x = k THEN v ELSE d[x]]

EmptyDict == [x \in {} |-> None]

\* --------------------------------------------------- grounding data (inputs)

Web(uri, title, domain) == [uri |-> uri, title |-> title, domain |-> domain]
Chunk(web) == [web |-> web]
Support(segment, indices, scores) ==
    [segment |-> segment, grounding_chunk_indices |-> indices,
     confidence_scores |-> scores]
Grounded(chunks, supports) ==
    [grounding_metadata |->
        Some([grounding_chunks |-> chunks, grounding_supports |-> supports])]

U1 == <<"u", "1">>
U2 == <<"u", "2">>
U3 == <<"u", "3">>
W1 == Web(U1, Some(<<"T">>), Some(<<"a">>))        \* a title of its own
W2 == Web(U2, Some(<<"b">>), Some(<<"b">>))        \* title equals domain
W3 == Web(U3, None, Some(<<"c">>))                 \* no title
W1b == Web(U1, Some(<<"V">>), Some(<<"a">>))       \* U1 again, another title
W4 == Web(<<"u", "4">>, None, None)                \* neither title nor domain

\* an event with no grounding metadata (any agent that did not search)
EvPlain == [grounding_metadata |-> None]
\* two chunks, one support over both with a single confidence score
EvTwo == Grounded(<<Chunk(Some(W1)), Chunk(Some(W2))>>,
                  Some(<<Support(Some(<<"x">>), Some(<<0, 1>>), Some(<<90>>))>>))
\* a chunk that is no web chunk, an untitled source, a support with no
\* segment and no scores that also names an index the event does not have
EvGaps == Grounded(<<Chunk(None), Chunk(Some(W3))>>,
                   Some(<<Support(None, Some(<<1, 0, 5>>), None)>>))
\* one chunk, a url seen before under another title; its supports name
\* index 1, which only a longer event has, and carry no indices at all
EvAgain == Grounded(<<Chunk(Some(W1b))>>,
                    Some(<<Support(Some(<<"y">>), Some(<<1, 0>>), Some(<<70, 80>>)),
                           Support(Some(<<"z">>), None, Some(<<60>>))>>))
\* the same url twice in one event, no supports
EvTwice == Grounded(<<Chunk(Some(W2)), Chunk(Some(W2))>>, None)
\* grounding metadata with an empty chunk list
EvEmpty == Grounded(<<>>, Some(<<Support(Some(<<"x">>), Some(<<0>>), Some(<<90>>))>>))

\* a source of which only the url is known
EvBare == Grounded(<<Chunk(Some(W4))>>, None)

\* a single chunk that is no web chunk, and a support that names it
EvNoWeb == Grounded(<<Chunk(None)>>,
                    Some(<<Support(Some(<<"x">>), Some(<<0>>), Some(<<90>>))>>))

EventPool == {EvPlain, EvTwo, EvGaps, EvAgain, EvTwice, EvEmpty, EvBare, EvNoWeb}
PipelinePool == {EvPlain, EvTwo, EvGaps, EvAgain}

DefaultConfidence == 50    \* 0.5

\* ------------------------------------- collect_research_sources_callback

\* lines 83-87
SourceTitle(web) == IF web.title # web.domain THEN web.title ELSE web.domain

\* IsUnseen that takes every chunk for a new source
IsUnseen_Always(url, url_to_short_id) == TRUE

\* line 88
IsUnseen(url, url_to_short_id) == url \notin DOMAIN url_to_short_id

\* line 89
ShortId(id_counter) == <<"s", "r", "c", "-">> \o Decimal(id_counter)

\* lines 79-99: the chunks of one event, from position idx (0-based) on.
\* acc = [url_to_short_id, sources, id_counter, chunks_info]
RECURSIVE IndexChunks(_, _, _)
IndexChunks(chunks, idx, acc) ==
    IF idx >= Len(chunks) THEN acc
    ELSE LET chunk == chunks[idx + 1] IN
         IF chunk.web = None THEN IndexChunks(chunks, idx + 1, acc)
         ELSE LET web == chunk.web[1]
                  url == web.uri
                  title == SourceTitle(web)
                  fresh == IsUnseen(url, acc.url_to_short_id)
                  short_id == ShortId(acc.id_counter)
                  map == IF fresh THEN DictPut(acc.url_to_short_id, url, short_id)
                         ELSE acc.url_to_short_id
                  srcs == IF fresh
                          THEN DictPut(acc.sources, short_id,
                                       [short_id |-> short_id, title |-> title,
                                        url |-> url, domain |-> web.domain,
                                        supported_claims |-> <<>>])
                          ELSE acc.sources
              IN IndexChunks(chunks, idx + 1,
                     [url_to_short_id |-> map,
                      sources |-> srcs,
                      id_counter |-> IF fresh THEN acc.id_counter + 1
                                     ELSE acc.id_counter,
                      chunks_info |-> DictPut(acc.chunks_info, idx, map[url])])

\* ConfidenceAt that reads the first score for every position
ConfidenceAt_First(confidence_scores, i) ==
    IF 0 < Len(confidence_scores) THEN confidence_scores[1]
    ELSE DefaultConfidence

\* lines 107-109
ConfidenceAt(confidence_scores, i) ==
    IF i < Len(confidence_scores) THEN confidence_scores[i + 1]
    ELSE DefaultConfidence

\* line 110
TextSegment(support) == IF support.segment # None THEN support.segment[1] ELSE <<>>

\* lines 104-116: the chunk indices of one support, from position i (0-based) on
RECURSIVE AttachIndices(_, _, _, _)
AttachIndices(support, i, chunks_info, sources) ==
    LET confidence_scores == OrEmpty(support.confidence_scores)
        chunk_indices == OrEmpty(support.grounding_chunk_indices)
    IN IF i >= Len(chunk_indices) THEN sources
       ELSE LET chunk_idx == chunk_indices[i + 1] IN
            IF chunk_idx \in DOMAIN chunks_info
            THEN LET short_id == chunks_info[chunk_idx]
                     claim == [text_segment |-> TextSegment(support),
                               confidence |-> ConfidenceAt(confidence_scores, i)]
                 IN AttachIndices(support, i + 1, chunks_info,
                        [sources EXCEPT ![short_id].supported_claims =
                                            Append(@, claim)])
            ELSE AttachIndices(support, i + 1, chunks_info, sources)

\* lines 100-101: the supports of one event, from the k-th (1-based) on
RECURSIVE AttachSupports(_, _, _, _)
AttachSupports(supports, k, chunks_info, sources) ==
    IF k > Len(supports) THEN sources
    ELSE AttachSupports(supports, k + 1, chunks_info,
                        AttachIndices(supports[k], 0, chunks_info, sources))

\* FreshChunksInfo that keeps the positions of the events before
FreshChunksInfo_Retained(previous) == previous

\* line 78: chunks_info of the event that is processed next
FreshChunksInfo(previous) == EmptyDict

\* lines 76-116: one event. reg = [url_to_short_id, sources, id_counter, chunks_info]
ProcessEvent(event, reg) ==
    IF event.grounding_metadata = None
       \/ event.grounding_metadata[1].grounding_chunks = <<>>
    THEN reg
    ELSE LET gm == event.grounding_metadata[1]
             indexed == IndexChunks(gm.grounding_chunks, 0,
                           [reg EXCEPT !.chunks_info = FreshChunksInfo(@)])
         IN [indexed EXCEPT !.sources =
                AttachSupports(OrEmpty(gm.grounding_supports), 1,
                               indexed.chunks_info, indexed.sources)]

\* line 75: the events of the session, from the k-th on
RECURSIVE ProcessEvents(_, _, _)
ProcessEvents(evs, k, reg) ==
    IF k > Len(evs) THEN reg
    ELSE ProcessEvents(evs, k + 1, ProcessEvent(evs[k], reg))

\* SeedCounter that starts every invocation at 1
SeedCounter_FromOne(url_to_short_id) == 1

\* line 74
SeedCounter(url_to_short_id) == Cardinality(DOMAIN url_to_short_id) + 1

\* lines 71-118: the callback, as the session state it leaves
CollectResearchSources(s, evs) ==
    LET url_to_short_id == DictGet(s, "url_to_short_id", EmptyDict)
        sources == DictGet(s, "sources", EmptyDict)
        reg == ProcessEvents(evs, 1,
                   [url_to_short_id |-> url_to_short_id, sources |-> sources,
                    id_counter |-> SeedCounter(url_to_short_id),
                    chunks_info |-> EmptyDict])
    IN DictPut(DictPut(s, "url_to_short_id", reg.url_to_short_id),
               "sources", reg.sources)

\* ------------------------------------------ citation_replacement_callback

\* IsSpace that takes only the blank for white space
IsSpace_OnlyBlank(c) == c = " "

IsSpace(c) == c \in {" ", "\n", "\t"}                      \* \s
IsDigit(c) == c \in {DigitChars[k] : k \in 1..10}          \* \d
IsPunct(c) == c \in {".", ",", ";", ":"}                   \* [.,;:]
IsQuote(c) == c \in {"\"", "'"}                            \* ["\']

At(t, i) == IF i >= 1 /\ i <= Len(t) THEN t[i] ELSE ""    \* "" past the end

LitAt(t, i, lit) ==
    /\ i + Len(lit) - 1 <= Len(t)
    /\ \A k \in 1..Len(lit) : t[i + k - 1] = lit[k]

\* SkipSpaces that skips one character of white space at most
SkipSpaces_One(t, i) == IF IsSpace(At(t, i)) THEN i + 1 ELSE i

RECURSIVE SkipSpaces(_, _)
SkipSpaces(t, i) == IF IsSpace(At(t, i)) THEN SkipSpaces(t, i + 1) ELSE i   \* \s*

RECURSIVE SkipDigits(_, _)
SkipDigits(t, i) == IF IsDigit(At(t, i)) THEN SkipDigits(t, i + 1) ELSE i   \* \d*

SkipQuote(t, i) == IF IsQuote(At(t, i)) THEN i + 1 ELSE i                   \* ["\']?

NoMatch == [end |-> 0, group1 |-> <<>>]

\* line 148: a match of <cite\s+source\s*=\s*["\']?\s*(src-\d+)\s*["\']?\s*/>
\* that starts at position i of t: the position after it and group 1.
\* Every piece of the pattern is followed by one that starts with another
\* character, so the greedy match is the only one.
MatchCite(t, i) ==
    IF ~(LitAt(t, i, <<"<", "c", "i", "t", "e">>) /\ IsSpace(At(t, i + 5)))
    THEN NoMatch
    ELSE LET p1 == SkipSpaces(t, i + 5) IN
    IF ~LitAt(t, p1, <<"s", "o", "u", "r", "c", "e">>) THEN NoMatch
    ELSE LET p2 == SkipSpaces(t, p1 + 6) IN
    IF At(t, p2) # "=" THEN NoMatch
    ELSE LET p3 == SkipSpaces(t, SkipQuote(t, SkipSpaces(t, p2 + 1))) IN
    IF ~(LitAt(t, p3, <<"s", "r", "c", "-">>) /\ IsDigit(At(t, p3 + 4)))
    THEN NoMatch
    ELSE LET p4 == SkipDigits(t, p3 + 4)
             p5 == SkipSpaces(t, SkipQuote(t, SkipSpaces(t, p4)))
         IN IF LitAt(t, p5, <<"/", ">">>)
            THEN [end |-> p5 + 2, group1 |-> SubSeq(t, p3, p4 - 1)]
            ELSE NoMatch

\* line 144
DisplayText(source_info, short_id) ==
    DictGet(source_info, "title", DictGet(source_info, "domain", Some(short_id)))

\* tag_replacer that leaves the id of an unknown source in the text
tag_replacer_KeepsId(sources, short_id) ==
    IF short_id \notin DOMAIN sources THEN short_id
    ELSE LET source_info == sources[short_id] IN
         <<" ", "[">> \o PyStr(DictGet(source_info, "title", Some(short_id)))
             \o <<"]", "(">> \o source_info["url"] \o <<")">>

\* lines 139-145
tag_replacer(sources, short_id) ==
    IF short_id \notin DOMAIN sources THEN <<>>
    ELSE LET source_info == sources[short_id] IN
         <<" ", "[">> \o PyStr(DisplayText(source_info, short_id))
             \o <<"]", "(">> \o source_info["url"] \o <<")">>

\* lines 147-151: re.sub of the citation tags of t, from position i on
RECURSIVE SubCite(_, _, _)
SubCite(t, i, sources) ==
    IF i > Len(t) THEN <<>>
    ELSE LET m == MatchCite(t, i) IN
         IF m.end > 0 THEN tag_replacer(sources, m.group1) \o SubCite(t, m.end, sources)
         ELSE <<t[i]>> \o SubCite(t, i + 1, sources)

\* line 152: re.sub(r"\s+([.,;:])", r"\1", t), from position i on
RECURSIVE FixSpacing(_, _)
FixSpacing(t, i) ==
    IF i > Len(t) THEN <<>>
    ELSE LET j == SkipSpaces(t, i) IN
         IF j > i /\ IsPunct(At(t, j)) THEN <<t[j]>> \o FixSpacing(t, j + 1)
         ELSE <<t[i]>> \o FixSpacing(t, i + 1)

\* lines 136-153: the callback, as the session state it leaves
CitationReplacement(s) ==
    LET final_report == DictGet(s, "final_cited_report", <<>>)
        sources == DictGet(s, "sources", EmptyDict)
        processed_report == FixSpacing(SubCite(final_report, 1, sources), 1)
    IN DictPut(s, "final_report_with_citations", processed_report)

\* ------------------------------------------------- composed reports (inputs)

Text(t) == [kind |-> "text", text |-> t, id |-> <<>>]
Marker(t, id) == [kind |-> "marker", text |-> t, id |-> id]

Src(digits) == <<"s", "r", "c", "-">> \o digits
CiteOpen == <<"<", "c", "i", "t", "e", " ", "s", "o", "u", "r", "c", "e">>

\* <cite source="src-1"/>
Cite1 == Marker(CiteOpen \o <<"=", "\"">> \o Src(<<"1">>) \o <<"\"", "/", ">">>,
                Src(<<"1">>))
\* <cite  source = 'src-2' />
Cite2 == Marker(<<"<", "c", "i", "t", "e", " ", "\n", "s", "o", "u", "r", "c", "e">>
                    \o <<" ", "=", " ", "'">> \o Src(<<"2">>) \o <<"'", " ", "/", ">">>,
                Src(<<"2">>))
\* <cite source=src-9 />
Cite9 == Marker(CiteOpen \o <<"=">> \o Src(<<"9">>) \o <<" ", "/", ">">>,
                Src(<<"9">>))
\* <cite source="src-01"/>
Cite01 == Marker(CiteOpen \o <<"=", "\"">> \o Src(<<"0", "1">>) \o <<"\"", "/", ">">>,
                 Src(<<"0", "1">>))
\* <cite source="1"/>: no citation tag
NoCite == Text(CiteOpen \o <<"=", "\"", "1", "\"", "/", ">">>)

\* <cite and  source=src-1/>: the two parts of a citation tag
CiteHead == Text(<<"<", "c", "i", "t", "e">>)
CiteTail == Text(<<" ", "s", "o", "u", "r", "c", "e", "=">> \o Src(<<"1">>)
                     \o <<"/", ">">>)

PiecePool == {Text(<<"X">>), Text(<<" ">>), Text(<<".">>), Text(<<"\n", ",">>),
              NoCite, Cite1, Cite2, Cite9, Cite01, CiteHead, CiteTail}

RECURSIVE Flatten(_)
Flatten(pieces) ==
    IF pieces = <<>> THEN <<>> ELSE Head(pieces).text \o Flatten(Tail(pieces))

\* the pieces of a report are its citation tags and the text between them:
\* no run of text pieces holds a citation tag
IsPieces(pieces) ==
    \A i \in 1..Len(pieces) : \A j \in i..Len(pieces) :
        (\A k \in i..j : pieces[k].kind = "text") =>
            LET t == Flatten(SubSeq(pieces, i, j)) IN
            \A q \in 1..Len(t) : MatchCite(t, q).end = 0

PieceSeqs(n) == {pieces \in UNION {[1..k -> PiecePool] : k \in 0..n} :
                    IsPieces(pieces)}

\* what report_composer writes in a pipeline run
PipelineReports == {<<Text(<<"X">>), Cite1, Text(<<".">>)>>,
                    <<Cite9, Text(<<" ">>), Cite2>>}

\* ------------------------------------------------------ EscalationChecker

\* What session.state can hold under "research_evaluation": values tagged
\* with their Python type.  research_evaluator saves Feedback.model_dump().
PyNone == [py |-> "NoneType"]
PyDict(d) == [py |-> "dict", d |-> d]
PyText(t) == [py |-> "str", s |-> t]
PyList(l) == [py |-> "list", l |-> l]

Feedback(grade) == PyDict([grade |-> grade, comment |-> "comment"])

Truthy(v) ==
    CASE v.py = "NoneType" -> FALSE
      [] v.py = "dict" -> DOMAIN v.d # {}
      [] v.py = "str" -> v.s # <<>>
      [] v.py = "list" -> v.l # <<>>

EvaluationValues ==
    {PyNone, PyDict(EmptyDict), PyDict([comment |-> "comment"]),
     Feedback("pass"), Feedback("fail"), Feedback("maybe"),
     PyText(<<>>), PyText(<<"p", "a", "s", "s">>), PyList(<<"pass">>)}

\* GradeIsPass with the grade compared against another spelling
GradeIsPass_Capitalised(evaluation_result) ==
    IF ~Truthy(evaluation_result) THEN FALSE
    ELSE DictGet(evaluation_result.d, "grade", "None") = "Pass"

\* line 168: the condition of the if.  "escalate", "continue", or the
\* exception that evaluating it raises
GradeIsPass(evaluation_result) ==
    IF ~Truthy(evaluation_result) THEN FALSE
    ELSE DictGet(evaluation_result.d, "grade", "None") = "pass"

\* lines 167-178
EscalationDecision(s) ==
    LET evaluation_result == DictGet(s, "research_evaluation", PyNone) IN
    IF Truthy(evaluation_result) /\ evaluation_result.py # "dict"
    THEN "AttributeError"            \* .get on a str or a list
    ELSE IF GradeIsPass(evaluation_result) THEN "escalate" ELSE "continue"

\* ------------------------------------------------------------ the pipeline

NewHist == [refines |-> 0, evaluates |-> 0, all_fail |-> TRUE, pass_iter |-> 0,
            refine_after_pass |-> FALSE, exit_iter |-> 0, stages |-> <<>>]

\* the part of hist that belongs to the session, not to the run
Keep(h) == [processed |-> h.processed, collects |-> h.collects,
            pieces |-> h.pieces, composed |-> h.composed,
            rewritten |-> h.rewritten]

Merge(a, b) == [k \in DOMAIN a \cup DOMAIN b |->
                   IF k \in DOMAIN b THEN b[k] ELSE a[k]]

InitHist == Merge(NewHist, [processed |-> 0, collects |-> 0, pieces |-> <<>>,
                            composed |-> 0, rewritten |-> 0])

\* the stage that has just run, added to the stages of the current run
Staged(h, stage) == [h EXCEPT !.stages = Append(@, stage)]

\* AfterLoop that ends the run where the loop ends
AfterLoop_EndsRun == "done"

\* line 331: the sub-agent of research_pipeline that follows the loop
AfterLoop == "report_composer"

\* FirstOfLoop that starts an iteration at the checker
FirstOfLoop_SkipsEvaluator == "escalation_checker"

\* line 326: the first sub-agent of iterative_refinement_loop
FirstOfLoop == "research_evaluator"

\* CheckerStateDelta that clears the verdict the checker has read
CheckerStateDelta_ClearsVerdict == [research_evaluation |-> PyNone]

\* lines 172 and 178: the events of the checker carry no state_delta
CheckerStateDelta == EmptyDict

NumGrounded(evs) == Cardinality({k \in 1..Len(evs) : evs[k] # EvPlain})

\* the events a research agent can add to the session
SearchEvents(pool) ==
    IF NumGrounded(events) < MaxGroundedEvents THEN pool ELSE {EvPlain}

Abort(exception) ==
    /\ pc' = "aborted"
    /\ error' = exception

\* interactive_planner_agent, lines 335-356: saves the plan and, once it is
\* approved, hands over to research_pipeline (lines 316-333)
PlanApproved ==
    /\ run' = run + 1
    /\ state' = DictPut(state, "research_plan", "plan")
    /\ events' = Append(events, EvPlain)
    /\ pc' = "section_planner"
    /\ error' = "none"
    /\ loop' = "IDLE"
    /\ times_looped' = 0
    /\ hist' = Merge(NewHist, Keep(hist))
    /\ UNCHANGED max_iterations

\* the first request of a session
interactive_planner_agent ==
    /\ pc = "idle"
    /\ PlanApproved

\* a later request of the same session, after a run has ended
next_request ==
    /\ pc \in {"done", "aborted"}
    /\ run < MaxRuns
    /\ PlanApproved

\* section_planner, lines 201-216
section_planner ==
    /\ pc = "section_planner"
    /\ state' = DictPut(state, "report_sections", "outline")
    /\ events' = Append(events, EvPlain)
    /\ pc' = "section_researcher"
    /\ hist' = Staged(hist, "Outline")
    /\ UNCHANGED <<max_iterations, times_looped, loop, error, run>>

\* section_researcher, lines 219-233: the agent itself
section_researcher ==
    /\ pc = "section_researcher"
    /\ \E e \in SearchEvents(PipelinePool) : events' = Append(events, e)
    /\ state' = DictPut(state, "section_research_findings", "findings")
    /\ pc' = "collect_initial"
    /\ hist' = Staged(hist, "InitialResearch")
    /\ UNCHANGED <<max_iterations, times_looped, loop, error, run>>

Collected(h) == [h EXCEPT !.processed = Len(events), !.collects = @ + 1]

\* line 234: after_agent_callback of section_researcher; then the
\* LoopAgent of lines 322-330 starts
collect_initial ==
    /\ pc = "collect_initial"
    /\ state' = CollectResearchSources(state, events)
    /\ hist' = Collected(hist)
    /\ times_looped' = 0
    /\ loop' = "RUNNING"
    /\ pc' = FirstOfLoop
    /\ UNCHANGED <<events, max_iterations, error, run>>

\* research_evaluator, lines 237-262: saves a Feedback under
\* research_evaluation, or nothing when its final response has no content
research_evaluator ==
    /\ pc = "research_evaluator"
    /\ \E wrote \in {"pass", "fail", "nothing"} :
          /\ state' = IF wrote = "nothing" THEN state
                      ELSE DictPut(state, "research_evaluation", Feedback(wrote))
          /\ hist' = Staged([hist EXCEPT !.evaluates = @ + 1,
                                         !.all_fail = @ /\ wrote = "fail",
                                         !.pass_iter = IF wrote = "pass"
                                                       THEN times_looped + 1 ELSE @],
                            IF wrote = "nothing" THEN "Evaluate:nothing"
                            ELSE "Evaluate:verdict")
    /\ events' = Append(events, EvPlain)
    /\ pc' = "escalation_checker"
    /\ UNCHANGED <<max_iterations, times_looped, loop, error, run>>

\* EscalationChecker._run_async_impl, lines 164-178, and what the LoopAgent
\* does with the event: an escalation ends the loop
escalation_checker ==
    /\ pc = "escalation_checker"
    /\ LET decision == EscalationDecision(state) IN
       CASE decision = "escalate" ->
              /\ events' = Append(events, EvPlain)
              /\ state' = Merge(state, CheckerStateDelta)
              /\ loop' = "ESCALATED"
              /\ pc' = AfterLoop
              /\ hist' = Staged([hist EXCEPT !.exit_iter = times_looped + 1],
                                "Gate:escalate")
              /\ UNCHANGED error
         [] decision = "continue" ->
              /\ events' = Append(events, EvPlain)
              /\ state' = Merge(state, CheckerStateDelta)
              /\ pc' = "enhanced_search_executor"
              /\ hist' = Staged(hist, "Gate:continue")
              /\ UNCHANGED <<loop, error>>
         [] OTHER ->
              /\ Abort(decision)
              /\ UNCHANGED <<state, events, loop, hist>>
    /\ UNCHANGED <<max_iterations, times_looped, run>>

\* enhanced_search_executor, lines 264-281: the agent itself
enhanced_search_executor ==
    /\ pc = "enhanced_search_executor"
    /\ \E e \in SearchEvents(PipelinePool) : events' = Append(events, e)
    /\ state' = DictPut(state, "section_research_findings", "findings")
    /\ hist' = Staged([hist EXCEPT !.refines = @ + 1,
                                   !.refine_after_pass = @ \/ hist.pass_iter > 0],
                      "Refine")
    /\ pc' = "collect_refine"
    /\ UNCHANGED <<max_iterations, times_looped, loop, error, run>>

\* LoopGoesOn with the comparison off by one
LoopGoesOn_OffByOne(looped) == looped <= max_iterations

\* line 324: the LoopAgent runs its sub-agents while times_looped < max_iterations
LoopGoesOn(looped) == looped < max_iterations

\* line 282: after_agent_callback of enhanced_search_executor; it is the
\* last sub-agent, so an iteration of the LoopAgent ends here
collect_refine ==
    /\ pc = "collect_refine"
    /\ state' = CollectResearchSources(state, events)
    /\ hist' = Collected(hist)
    /\ times_looped' = times_looped + 1
    /\ IF LoopGoesOn(times_looped + 1)
       THEN pc' = FirstOfLoop /\ UNCHANGED loop
       ELSE pc' = AfterLoop /\ loop' = "EXHAUSTED"
    /\ UNCHANGED <<events, max_iterations, error, run>>

\* report_composer, lines 285-312: the agent itself; it saves the report
\* under final_cited_report, or nothing when its response has no content
ReportComposer(reports) ==
    /\ pc = "report_composer"
    /\ \/ \E pieces \in reports :
             /\ state' = DictPut(state, "final_cited_report", Flatten(pieces))
             /\ hist' = Staged([hist EXCEPT !.pieces = pieces, !.composed = run],
                               "Compose")
       \/ /\ hist' = Staged(hist, "Compose")
          /\ UNCHANGED state
    /\ events' = Append(events, EvPlain)
    /\ pc' = "citation_replacement"
    /\ UNCHANGED <<max_iterations, times_looped, loop, error, run>>

report_composer == ReportComposer(PipelineReports)

\* line 313: after_agent_callback of report_composer
citation_replacement ==
    /\ pc = "citation_replacement"
    /\ state' = CitationReplacement(state)
    /\ pc' = "done"
    /\ hist' = Staged([hist EXCEPT !.rewritten = run], "Rewrite")
    /\ UNCHANGED <<events, max_iterations, times_looped, loop, error, run>>

LlmAgents == {"section_planner", "section_researcher", "research_evaluator",
              "enhanced_search_executor", "report_composer"}

\* a call of the model or of google_search raises: the run ends there
engine_error ==
    /\ pc \in LlmAgents
    /\ Abort("engine")
    /\ UNCHANGED <<state, events, max_iterations, times_looped, loop, run, hist>>

Init ==
    /\ state = EmptyDict
    /\ events = <<>>
    /\ pc = "idle"
    /\ max_iterations \in 1..MaxIterationsBound
    /\ times_looped = 0
    /\ loop = "IDLE"
    /\ error = "none"
    /\ run = 0
    /\ hist = InitHist

Next ==
    \/ interactive_planner_agent
    \/ section_planner
    \/ section_researcher
    \/ collect_initial
    \/ research_evaluator
    \/ escalation_checker
    \/ enhanced_search_executor
    \/ collect_refine
    \/ report_composer
    \/ citation_replacement
    \/ engine_error

Spec == Init /\ [][Next]_vars

\* A session that was created with a value under research_evaluation
GateInit ==
    /\ state \in {EmptyDict} \cup
                 {DictPut(EmptyDict, "research_evaluation", v) : v \in EvaluationValues}
    /\ events = <<>>
    /\ pc = "idle"
    /\ max_iterations \in 1..MaxIterationsBound
    /\ times_looped = 0
    /\ loop = "IDLE"
    /\ error = "none"
    /\ run = 0
    /\ hist = InitHist

GateSpec == GateInit /\ [][Next]_vars

\* A session that serves several requests, each a run of the pipeline with
\* a budget of one iteration
SessionInit ==
    /\ state = EmptyDict
    /\ events = <<>>
    /\ pc = "idle"
    /\ max_iterations = 1
    /\ times_looped = 0
    /\ loop = "IDLE"
    /\ error = "none"
    /\ run = 0
    /\ hist = InitHist

SessionNext == Next \/ next_request

SessionSpec == SessionInit /\ [][SessionNext]_vars

\* A run in which no call of the model or of google_search fails.  The
\* runner drives the agents of research_pipeline one after the other, each
\* to its end: whenever an agent can run, it does.
PipelineNext ==
    \/ interactive_planner_agent
    \/ section_planner
    \/ section_researcher
    \/ collect_initial
    \/ research_evaluator
    \/ escalation_checker
    \/ enhanced_search_executor
    \/ collect_refine
    \/ report_composer
    \/ citation_replacement

\* the agents: the runner awaits each of them to its end
AgentsRun ==
    \/ interactive_planner_agent
    \/ section_planner
    \/ section_researcher
    \/ research_evaluator
    \/ escalation_checker
    \/ enhanced_search_executor
    \/ report_composer

Callbacks == {"collect_initial", "collect_refine", "citation_replacement"}

\* The two callbacks are straight-line code over finite data: once invoked
\* they return.  This is weak fairness of collect_initial, collect_refine and
\* citation_replacement, written with their enabling condition: a callback
\* can take its step exactly when pc is at it, and the step moves pc on.
CallbacksReturn == []<>(pc \notin Callbacks)

LiveSpec ==
    Init /\ [][PipelineNext]_vars /\ WF_vars(AgentsRun) /\ CallbacksReturn

\* ------------------------------------------------- the callback on its own
\* Any events reach the session, and the callback runs at any time.

research_event ==
    /\ pc = "registry"
    /\ Len(events) < MaxEvents
    /\ \E e \in EventPool : events' = Append(events, e)
    /\ UNCHANGED <<state, pc, max_iterations, times_looped, loop, error, run, hist>>

collect_research_sources_callback ==
    /\ pc = "registry"
    /\ hist.collects < MaxCollects
    /\ state' = CollectResearchSources(state, events)
    /\ hist' = Collected(hist)
    /\ UNCHANGED <<events, pc, max_iterations, times_looped, loop, error, run>>

RegistryInit ==
    /\ state = EmptyDict
    /\ events = <<>>
    /\ pc = "registry"
    /\ max_iterations = 1
    /\ times_looped = 0
    /\ loop = "IDLE"
    /\ error = "none"
    /\ run = 0
    /\ hist = InitHist

RegistryNext == research_event \/ collect_research_sources_callback

RegistrySpec == RegistryInit /\ [][RegistryNext]_vars

\* ------------------------------------------- the report stages on their own
\* Any report of at most MaxPieces pieces, over a registry that the callback
\* built.

RegistryInputs == {<<>>, <<EvTwo>>, <<EvGaps, EvTwo>>, <<EvBare>>}

compose_any_report == ReportComposer(PieceSeqs(MaxPieces))

RewriteInit ==
    /\ \E evs \in RegistryInputs :
          /\ events = evs
          /\ state = CollectResearchSources(EmptyDict, evs)
          /\ hist = [InitHist EXCEPT !.processed = Len(evs), !.collects = 1]
    /\ pc = "report_composer"
    /\ max_iterations = 1
    /\ times_looped = 0
    /\ loop = "IDLE"
    /\ error = "none"
    /\ run = 1

RewriteNext == compose_any_report \/ citation_replacement

RewriteSpec == RewriteInit /\ [][RewriteNext]_vars

\* -------------------------------------------------------------- properties

UrlToShortId == DictGet(state, "url_to_short_id", EmptyDict)
Sources == DictGet(state, "sources", EmptyDict)

LoopAgents == {"research_evaluator", "escalation_checker",
               "enhanced_search_executor", "collect_refine"}

\* C1: once the evaluator of iteration k has written a verdict with grade
\* pass, the run is either at the escalation checker of iteration k, which
\* then escalates, or the loop has ended ESCALATED in iteration k; the
\* refinement agent has run k - 1 times, that is never since the verdict.
C1_PassEndsLoop ==
    hist.pass_iter > 0 =>
        /\ hist.pass_iter <= max_iterations
        /\ ~hist.refine_after_pass
        /\ hist.refines = hist.pass_iter - 1
        /\ pc \notin {"research_evaluator", "enhanced_search_executor", "collect_refine"}
        /\ \/ /\ pc = "escalation_checker"
              /\ loop = "RUNNING"
              /\ times_looped = hist.pass_iter - 1
              /\ EscalationDecision(state) = "escalate"
           \/ /\ loop = "ESCALATED"
              /\ hist.exit_iter = hist.pass_iter

\* C1 witness: verdicts fail, pass with a budget of three iterations
C1_Witness ==
    /\ loop = "ESCALATED"
    /\ hist.pass_iter = 2
    /\ hist.refines = 1
    /\ max_iterations = 3
    /\ pc = "done"

\* C2: the refinement agent never runs more than max_iterations times; after
\* its max_iterations-th execution no evaluator or checker runs and the loop
\* is EXHAUSTED as soon as that iteration is over; and when every evaluator
\* execution wrote a verdict with grade fail, the loop does not end before
\* that, and ends EXHAUSTED with exactly max_iterations executions of each.
C2_ExhaustsAfterN ==
    /\ hist.refines <= max_iterations
    /\ hist.evaluates <= max_iterations
    /\ hist.refines = max_iterations =>
          /\ hist.evaluates = max_iterations
          /\ pc \notin {"research_evaluator", "escalation_checker",
                        "enhanced_search_executor"}
          /\ pc = "collect_refine" \/ loop = "EXHAUSTED"
    /\ (hist.all_fail /\ loop \in {"ESCALATED", "EXHAUSTED"}) =>
          /\ loop = "EXHAUSTED"
          /\ hist.refines = max_iterations
          /\ hist.evaluates = max_iterations
          /\ times_looped = max_iterations
    /\ (hist.all_fail /\ loop = "RUNNING" /\ pc \in LoopAgents) =>
          /\ times_looped < max_iterations
          /\ hist.refines = IF pc = "collect_refine" THEN times_looped + 1
                            ELSE times_looped
          /\ hist.evaluates = IF pc = "research_evaluator" THEN times_looped
                              ELSE times_looped + 1
          /\ pc = "escalation_checker" => EscalationDecision(state) = "continue"

\* C2 witness: three fail verdicts with a budget of three iterations
C2_Witness ==
    /\ loop = "EXHAUSTED"
    /\ hist.all_fail
    /\ max_iterations = 3
    /\ hist.refines = 3
    /\ hist.evaluates = 3
    /\ pc = "done"

\* The events that the callback has processed at its last invocation
Processed == SubSeq(events, 1, hist.processed)

\* the web chunks of an event that line 76 does not skip, in chunk order
WebsOf(event) ==
    IF event.grounding_metadata = None THEN <<>>
    ELSE LET chunks == event.grounding_metadata[1].grounding_chunks
             RECURSIVE From(_)
             From(k) == IF k > Len(chunks) THEN <<>>
                        ELSE IF chunks[k].web = None THEN From(k + 1)
                        ELSE <<chunks[k].web[1]>> \o From(k + 1)
         IN From(1)

RECURSIVE AllWebs(_)
AllWebs(evs) == IF evs = <<>> THEN <<>> ELSE WebsOf(Head(evs)) \o AllWebs(Tail(evs))

\* the urls of a sequence of web chunks in the order of their first occurrence
RECURSIVE FirstDiscovery(_, _)
FirstDiscovery(webs, seen) ==
    IF webs = <<>> THEN <<>>
    ELSE IF Head(webs).uri \in seen THEN FirstDiscovery(Tail(webs), seen)
    ELSE <<Head(webs).uri>> \o FirstDiscovery(Tail(webs), seen \cup {Head(webs).uri})

SrcN(k) == <<"s", "r", "c", "-">> \o Decimal(k)

\* C3: after any invocations of the callback over any events, the url map
\* holds exactly the urls discovered so far, the k-th url in first-discovery
\* order has the id src-k (so no url has two ids, no two urls share one and
\* a url seen again gets no new id), and the sources are exactly those ids,
\* each with its own id and url.
C3_ShortIdsFollowDiscovery ==
    LET order == FirstDiscovery(AllWebs(Processed), {}) IN
    /\ DOMAIN UrlToShortId = {order[k] : k \in 1..Len(order)}
    /\ \A k \in 1..Len(order) : UrlToShortId[order[k]] = SrcN(k)
    /\ \A u, v \in DOMAIN UrlToShortId :
          UrlToShortId[u] = UrlToShortId[v] => u = v
    /\ DOMAIN Sources = {SrcN(k) : k \in 1..Len(order)}
    /\ \A k \in 1..Len(order) :
          /\ Sources[SrcN(k)].url = order[k]
          /\ Sources[SrcN(k)].short_id = SrcN(k)

\* C3 witness: two invocations, three urls, one of them in two events
C3_Witness ==
    /\ pc = "registry"
    /\ hist.collects = 2
    /\ Cardinality(DOMAIN UrlToShortId) = 3
    /\ Len(AllWebs(Processed)) > 3
    /\ U1 \in DOMAIN UrlToShortId /\ UrlToShortId[U1] = SrcN(2)

\* C4: in every step of a run, every url that is registered stays registered
\* under the same id, that id keeps resolving to a source with that url, and
\* no source is removed.
C4_RegistryAppendOnly ==
    [][/\ \A u \in DOMAIN UrlToShortId :
             /\ u \in DOMAIN UrlToShortId'
             /\ UrlToShortId'[u] = UrlToShortId[u]
             /\ UrlToShortId[u] \in DOMAIN Sources'
             /\ Sources'[UrlToShortId[u]].url = u
       /\ DOMAIN Sources \subseteq DOMAIN Sources'
       /\ \A id \in DOMAIN Sources : Sources'[id].url = Sources[id].url]_vars

\* C4 witness: the rewriter has run after a loop of at least two iterations
\* whose last refinement found nothing, over sources of the initial research
C4_Witness ==
    /\ pc = "done"
    /\ loop = "EXHAUSTED"
    /\ times_looped >= 2
    /\ events[Len(events) - 1] = EvPlain
    /\ events[3] = EvTwo
    /\ U1 \in DOMAIN UrlToShortId
    /\ UrlToShortId[U1] = SrcN(1)
    /\ Sources[SrcN(1)].url = U1
    /\ Cardinality(DOMAIN Sources) = 3

\* the source that position idx of the chunks of an event resolves to, as a
\* set: empty when the event has no web chunk there
ChunkSource(event, idx, map) ==
    LET chunks == event.grounding_metadata[1].grounding_chunks IN
    IF idx + 1 \in 1..Len(chunks) /\ chunks[idx + 1].web # None
    THEN {map[chunks[idx + 1].web[1].uri]} ELSE {}

\* the claims that one support of an event gives the source id, in the order
\* of the positions of its chunk indices
ClaimsOfSupport(event, support, map, id) ==
    LET indices == IF support.grounding_chunk_indices = None THEN <<>>
                   ELSE support.grounding_chunk_indices[1]
        scores == IF support.confidence_scores = None THEN <<>>
                  ELSE support.confidence_scores[1]
        RECURSIVE From(_)
        From(p) ==
            IF p > Len(indices) THEN <<>>
            ELSE IF id \in ChunkSource(event, indices[p], map)
            THEN <<[text_segment |-> IF support.segment = None THEN <<>>
                                     ELSE support.segment[1],
                    confidence |-> IF p <= Len(scores) THEN scores[p] ELSE 50]>>
                 \o From(p + 1)
            ELSE From(p + 1)
    IN From(1)

ClaimsOfEvent(event, map, id) ==
    IF event.grounding_metadata = None
       \/ event.grounding_metadata[1].grounding_chunks = <<>>
       \/ event.grounding_metadata[1].grounding_supports = None
    THEN <<>>
    ELSE LET supports == event.grounding_metadata[1].grounding_supports[1]
             RECURSIVE From(_)
             From(k) == IF k > Len(supports) THEN <<>>
                        ELSE ClaimsOfSupport(event, supports[k], map, id) \o From(k + 1)
         IN From(1)

RECURSIVE ClaimsOfEvents(_, _, _)
ClaimsOfEvents(evs, map, id) ==
    IF evs = <<>> THEN <<>>
    ELSE ClaimsOfEvent(Head(evs), map, id) \o ClaimsOfEvents(Tail(evs), map, id)

\* C5: an invocation of the callback appends to every source, after the
\* claims it held, one claim for every event, support and position of the
\* support's chunk indices whose index is that of a web chunk of the same
\* event with the source's url, in that order, and nothing else; the claim
\* carries the score at the same position, or 0.5 when there is none, and
\* the segment text, or the empty string when there is no segment.
C5_ClaimsAttached ==
    [][hist'.collects = hist.collects + 1 =>
          \A id \in DOMAIN Sources' :
              Sources'[id].supported_claims =
                  (IF id \in DOMAIN Sources THEN Sources[id].supported_claims ELSE <<>>)
                  \o ClaimsOfEvents(events, UrlToShortId', id)]_vars

\* C5 witness: the two-chunk event with one score for two chunk indices
C5_Witness ==
    /\ pc = "registry"
    /\ events = <<EvTwo>>
    /\ hist.collects = 1
    /\ hist.processed = 1
    /\ Sources[SrcN(1)].supported_claims = <<[text_segment |-> <<"x">>, confidence |-> 90]>>
    /\ Sources[SrcN(2)].supported_claims = <<[text_segment |-> <<"x">>, confidence |-> 50]>>

Link(display_text, url) == <<" ", "[">> \o display_text \o <<"]", "(">> \o url \o <<")">>

\* the display text of a source as the contract words it: the title if
\* there is one, else the domain if there is one, else the id
ContractDisplay(source, id) ==
    IF source.title # None THEN source.title[1]
    ELSE IF source.domain # None THEN source.domain[1]
    ELSE id

\* a composed report, piece by piece, with every marker of a registered id
\* replaced by a link that shows the contract's display text and every
\* other marker dropped
RECURSIVE ContractRewrite(_)
ContractRewrite(pieces) ==
    IF pieces = <<>> THEN <<>>
    ELSE LET p == Head(pieces) IN
         (IF p.kind = "text" THEN p.text
          ELSE IF p.id \in DOMAIN Sources
               THEN Link(ContractDisplay(Sources[p.id], p.id), Sources[p.id].url)
               ELSE <<>>)
         \o ContractRewrite(Tail(pieces))

\* the same, with the link showing the title as Python formats it
RECURSIVE TitleRewrite(_)
TitleRewrite(pieces) ==
    IF pieces = <<>> THEN <<>>
    ELSE LET p == Head(pieces) IN
         (IF p.kind = "text" THEN p.text
          ELSE IF p.id \in DOMAIN Sources
               THEN Link(IF Sources[p.id].title = None THEN <<"N", "o", "n", "e">>
                         ELSE Sources[p.id].title[1], Sources[p.id].url)
               ELSE <<>>)
         \o TitleRewrite(Tail(pieces))

\* C6: once the rewriter has run, the report it wrote is the composed report
\* with every marker of a registered id replaced by a space and
\* [display_text](url), display_text being the source's title if it has
\* one, else its domain, else the id (and the spacing pass applied).
C6_ResolvableMarkerBecomesLink ==
    pc = "done" =>
        /\ "final_report_with_citations" \in DOMAIN state
        /\ state["final_report_with_citations"] =
               FixSpacing(ContractRewrite(hist.pieces), 1)

\* C7: the rewriter raises nothing and writes final_report_with_citations,
\* in which every marker of an id that is not registered has been replaced
\* by the empty string (the text around it is kept, and the spacing pass
\* applied).
C7_UnresolvableMarkerDeleted ==
    pc = "done" =>
        /\ error = "none"
        /\ "final_report_with_citations" \in DOMAIN state
        /\ state["final_report_with_citations"] =
               FixSpacing(TitleRewrite(hist.pieces), 1)

\* C7 witness: X<cite source=src-9 />X over an empty registry gives XX
C7_Witness ==
    /\ pc = "done"
    /\ hist.pieces = <<Text(<<"X">>), Cite9, Text(<<"X">>)>>
    /\ DOMAIN Sources = {}
    /\ state["final_report_with_citations"] = <<"X", "X">>

\* the web chunk that registered a url: the first one with that url
FirstWeb(webs, url) == webs[CHOOSE k \in 1..Len(webs) :
                               /\ webs[k].uri = url
                               /\ \A j \in 1..(k - 1) : webs[j].uri # url]

\* C8: the title of every source is the title of the chunk that registered
\* it, or that chunk's domain when the chunk's title equals its domain or
\* the chunk has no title.
C8_TitleFallsBackToDomain ==
    \A id \in DOMAIN Sources :
        LET web == FirstWeb(AllWebs(Processed), Sources[id].url) IN
        Sources[id].title = IF web.title = None \/ web.title = web.domain
                            THEN web.domain ELSE web.title

IsPassVerdict(s) ==
    /\ "research_evaluation" \in DOMAIN s
    /\ s["research_evaluation"].py = "dict"
    /\ "grade" \in DOMAIN s["research_evaluation"].d
    /\ s["research_evaluation"].d["grade"] = "pass"

\* C9: whatever research_evaluation holds, the checker raises no error; the
\* loop ends by escalation only on a verdict with grade pass, and the
\* refinement agent runs next on anything else.
C9_GateNeverRaises ==
    /\ error # "AttributeError"
    /\ loop = "ESCALATED" => IsPassVerdict(state)
    /\ pc = "enhanced_search_executor" => ~IsPassVerdict(state)

\* C10: a run that starts in a session in which an earlier run has written
\* its report starts with an empty registry.
C10_RegistryResetPerRun ==
    (run >= 2 /\ pc = "section_planner"
        /\ "final_report_with_citations" \in DOMAIN state) =>
        /\ DOMAIN UrlToShortId = {}
        /\ DOMAIN Sources = {}

\* C11: the rewriter does not run to its end while final_cited_report is
\* absent from the session state: in a state in which the key is absent the
\* rewriter has not completed and final_report_with_citations is not written.
C11_RequiredKeysFailClearly ==
    "final_cited_report" \notin DOMAIN state =>
        /\ "Rewrite" \notin {hist.stages[k] : k \in 1..Len(hist.stages)}
        /\ pc # "done"
        /\ "final_report_with_citations" \notin DOMAIN state

LastStages(n) == SubSeq(hist.stages, Len(hist.stages) - n + 1, Len(hist.stages))

\* the run has ended without an error, the composer and the rewriter were the
\* last agents to run, and the state holds the findings and the report
ReportDelivered ==
    /\ pc = "done"
    /\ error = "none"
    /\ Len(hist.stages) >= 2
    /\ LastStages(2) = <<"Compose", "Rewrite">>
    /\ "section_research_findings" \in DOMAIN state
    /\ "final_report_with_citations" \in DOMAIN state

\* C12: when no call fails, the end of the loop, ESCALATED or EXHAUSTED, is
\* no error and is followed by the composer and the rewriter, and every run
\* that starts leads to a state that holds final_report_with_citations,
\* written after the loop has ended.
C12_ExhaustionIsNotFailure ==
    /\ [](loop \in {"ESCALATED", "EXHAUSTED"} =>
             /\ error = "none"
             /\ pc \in {"report_composer", "citation_replacement", "done"})
    /\ (loop \in {"ESCALATED", "EXHAUSTED"}) ~> ReportDelivered
    /\ (run >= 1) ~> (ReportDelivered /\ loop \in {"ESCALATED", "EXHAUSTED"})

\* C12 witness: a report delivered after the budget of two iterations was
\* used up without a pass verdict
C12_Witness ==
    /\ ReportDelivered
    /\ loop = "EXHAUSTED"
    /\ max_iterations = 2
    /\ hist.pass_iter = 0
    /\ LastStages(3)[1] = "Refine"

\* lines 147-152: both passes of the rewriter over a report
Rewrite(report, sources) == FixSpacing(SubCite(report, 1, sources), 1)

\* C13: in every state of a run, final_report_with_citations is absent, or
\* the rewriter of that run has written it, the run has not failed, and it
\* holds the complete rewrite, all substitutions and the whitespace pass
\* applied, of the final_cited_report that the composer of that run wrote.
C13_NoHalfRewrittenReport ==
    "final_report_with_citations" \in DOMAIN state =>
        /\ hist.rewritten = run
        /\ pc = "done"
        /\ error = "none"
        /\ state["final_report_with_citations"] =
               Rewrite(IF hist.composed = run THEN state["final_cited_report"]
                       ELSE <<>>, Sources)

\* whether position idx (0-based) of a chunk list holds a web chunk
IsWebChunkAt(chunks, idx) ==
    idx + 1 \in 1..Len(chunks) /\ chunks[idx + 1].web # None

\* the position of the web chunk at idx once the chunks that are no web
\* chunks are taken out of the list
WebPosition(chunks, idx) ==
    Cardinality({j \in 0..(idx - 1) : IsWebChunkAt(chunks, j)})

\* A support without the chunk indices that name no web chunk of its event:
\* the remaining indices, renumbered, each with the score its position had.
\* No support is left when no index remains.
ScrubSupport(chunks, support) ==
    LET indices == IF support.grounding_chunk_indices = None THEN <<>>
                   ELSE support.grounding_chunk_indices[1]
        scores == IF support.confidence_scores = None THEN <<>>
                  ELSE support.confidence_scores[1]
        RECURSIVE From(_)
        From(p) ==
            IF p > Len(indices) THEN <<>>
            ELSE IF IsWebChunkAt(chunks, indices[p])
            THEN <<[index |-> WebPosition(chunks, indices[p]),
                    score |-> IF p <= Len(scores) THEN scores[p] ELSE 50]>>
                 \o From(p + 1)
            ELSE From(p + 1)
        kept == From(1)
    IN IF kept = <<>> THEN <<>>
       ELSE <<Support(support.segment,
                      Some([p \in 1..Len(kept) |-> kept[p].index]),
                      Some([p \in 1..Len(kept) |-> kept[p].score]))>>

\* An event without its malformed data: without the chunks that are no web
\* chunks, the supports that have no chunk indices, and the chunk indices
\* that name no web chunk of the event.  No event is left when it has no
\* grounding metadata or no web chunk.
ScrubEvent(event) ==
    IF event.grounding_metadata = None THEN <<>>
    ELSE LET gm == event.grounding_metadata[1]
             chunks == gm.grounding_chunks
             supports == IF gm.grounding_supports = None THEN <<>>
                         ELSE gm.grounding_supports[1]
             RECURSIVE ChunksFrom(_)
             ChunksFrom(k) ==
                 IF k > Len(chunks) THEN <<>>
                 ELSE IF chunks[k].web = None THEN ChunksFrom(k + 1)
                 ELSE <<chunks[k]>> \o ChunksFrom(k + 1)
             RECURSIVE SupportsFrom(_)
             SupportsFrom(k) ==
                 IF k > Len(supports) THEN <<>>
                 ELSE ScrubSupport(chunks, supports[k]) \o SupportsFrom(k + 1)
         IN IF ChunksFrom(1) = <<>> THEN <<>>
            ELSE <<Grounded(ChunksFrom(1), Some(SupportsFrom(1)))>>

RECURSIVE ScrubEvents(_)
ScrubEvents(evs) ==
    IF evs = <<>> THEN <<>> ELSE ScrubEvent(Head(evs)) \o ScrubEvents(Tail(evs))

\* C14: an invocation of the callback raises no error and leaves both maps
\* and all claims as an invocation over the events without their malformed
\* data leaves them (events with no grounding metadata or no chunks, chunks
\* with no web reference, supports with no chunk indices, chunk indices
\* with no web chunk of the same event); when no event has a web chunk, the
\* maps and the claims are unchanged.
C14_MalformedDataSkipped ==
    [][hist'.collects = hist.collects + 1 =>
          LET clean == CollectResearchSources(state, ScrubEvents(events)) IN
          /\ error' = "none"
          /\ UrlToShortId' = clean["url_to_short_id"]
          /\ Sources' = clean["sources"]
          /\ ScrubEvents(events) = <<>> =>
                 /\ UrlToShortId' = UrlToShortId
                 /\ Sources' = Sources]_vars

\* C14 witness: an event whose only chunk is no web chunk, an event with
\* such a chunk, a support that names it and an index out of range, and an
\* event with no chunks give one source with one claim
C14_Witness ==
    /\ pc = "registry"
    /\ events = <<EvNoWeb, EvGaps, EvEmpty>>
    /\ hist.collects = 1
    /\ hist.processed = 3
    /\ DOMAIN UrlToShortId = {U3}
    /\ DOMAIN Sources = {SrcN(1)}
    /\ Sources[SrcN(1)].supported_claims =
           <<[text_segment |-> <<>>, confidence |-> 50]>>

IsEvaluate(stage) == stage \in {"Evaluate:verdict", "Evaluate:nothing"}
IsGate(stage) == stage \in {"Gate:continue", "Gate:escalate"}
StageCount(stage) ==
    Cardinality({k \in 1..Len(hist.stages) : hist.stages[k] = stage})

\* The stages that have run in the current run are in pipeline order:
\* Outline, InitialResearch, iterations of Evaluate, Gate, Refine, then
\* Compose and Rewrite; each stage but those of the loop runs at most once,
\* and the loop is left for Compose only on an escalation or with the
\* budget used up.  gate_reads says which Evaluate may precede a Gate that
\* signals continue.
StagesInOrder(gate_reads) ==
    /\ \A k \in 1..Len(hist.stages) :
          LET stage == hist.stages[k]
              before == IF k = 1 THEN "" ELSE hist.stages[k - 1]
          IN CASE stage = "Outline" -> k = 1
               [] stage = "InitialResearch" -> before = "Outline"
               [] IsEvaluate(stage) ->
                      /\ before \in {"InitialResearch", "Refine"}
                      /\ StageCount("Refine") < max_iterations
                            \/ \E j \in (k + 1)..Len(hist.stages) :
                                  hist.stages[j] = "Refine"
               [] stage = "Gate:escalate" -> IsEvaluate(before)
               [] stage = "Gate:continue" -> before \in gate_reads
               [] stage = "Refine" -> before = "Gate:continue"
               [] stage = "Compose" ->
                      \/ before = "Gate:escalate"
                      \/ before = "Refine" /\ StageCount("Refine") = max_iterations
               [] stage = "Rewrite" -> before = "Compose"
    /\ \A stage \in {"Outline", "InitialResearch", "Compose", "Rewrite"} :
          StageCount(stage) <= 1
    /\ StageCount("Refine") <= max_iterations
    /\ pc = "done" => hist.stages # <<>> /\ LastStages(1) = <<"Rewrite">>

\* C15 as stated: the stages run in pipeline order, each at most once, every
\* iteration runs Evaluate, Gate, Refine in that order, and every Refine is
\* immediately preceded by a Gate that signalled continue on a verdict that
\* the Evaluate of the same iteration wrote.
C15_StageOrdering == StagesInOrder({"Evaluate:verdict"})

\* C15, amended: the same order; every Refine is immediately preceded by a
\* Gate that signalled continue, and that by the Evaluate of the same
\* iteration, which wrote a verdict or, its response having no content,
\* saved nothing.
C15_StageOrderingAmended ==
    StagesInOrder({"Evaluate:verdict", "Evaluate:nothing"})

\* C15 witness: a run of two iterations, the second of which escalates
C15_Witness ==
    /\ pc = "done"
    /\ hist.stages = <<"Outline", "InitialResearch",
                       "Evaluate:verdict", "Gate:continue", "Refine",
                       "Evaluate:verdict", "Gate:escalate",
                       "Compose", "Rewrite">>

\* no citation tag starts at any position of a text
HasNoMarker(t) == \A i \in 1..Len(t) : MatchCite(t, i).end = 0

\* C16 as stated: the report that the rewriter wrote contains no citation
\* marker, and the rewriter applied to it, over the same sources, gives it
\* back unchanged.  (No title, domain or url of the sources of the model
\* contains marker text.)
C16_RewriterIdempotent ==
    pc = "done" =>
        LET out == state["final_report_with_citations"] IN
        /\ HasNoMarker(out)
        /\ Rewrite(out, Sources) = out

\* C16, amended: when the report that the rewriter wrote contains no
\* citation marker, the rewriter applied to it gives it back unchanged.
C16_RewriterIdempotentAmended ==
    pc = "done" =>
        LET out == state["final_report_with_citations"] IN
        HasNoMarker(out) => Rewrite(out, Sources) = out

\* C16 witness: a registered marker, a space and a full stop, rewritten
\* to a link and the full stop
C16_Witness ==
    /\ pc = "done"
    /\ hist.pieces = <<Cite1, Text(<<" ">>), Text(<<".">>)>>
    /\ SrcN(1) \in DOMAIN Sources
    /\ state["final_report_with_citations"] = Link(<<"T">>, U1) \o <<".">>
    /\ Rewrite(state["final_report_with_citations"], Sources) =
           state["final_report_with_citations"]

\* whether position p of a text holds white space that only white space
\* separates from a following . , ; or :
IsBeforePunctuation(t, p) ==
    /\ t[p] \in {" ", "\n", "\t"}
    /\ \E q \in (p + 1)..Len(t) :
          /\ t[q] \in {".", ",", ";", ":"}
          /\ \A r \in p..(q - 1) : t[r] \in {" ", "\n", "\t"}

\* a text without the white space before punctuation, from position p on
RECURSIVE WithoutSpaceBeforePunctuation(_, _)
WithoutSpaceBeforePunctuation(t, p) ==
    IF p > Len(t) THEN <<>>
    ELSE (IF IsBeforePunctuation(t, p) THEN <<>> ELSE <<t[p]>>)
         \o WithoutSpaceBeforePunctuation(t, p + 1)

\* the rewriter leaves final_cited_report as the composer wrote it
ReportUntouched ==
    DictGet(state, "final_cited_report", <<>>) = Flatten(hist.pieces)

\* C17 as stated: the written report is the composed one with its markers
\* substituted and nothing else changed: the whitespace pass removes only
\* an inserted space that stands immediately before . , ; or : (the space
\* that a substitution inserts stands before "[", so none), and white space
\* that the composer wrote before punctuation is kept; final_cited_report
\* is not modified.
C17_RewriterFrame ==
    pc = "done" =>
        /\ state["final_report_with_citations"] = TitleRewrite(hist.pieces)
        /\ ReportUntouched

\* C17, amended: the written report is the composed one with its markers
\* substituted and every run of white space that stands immediately before
\* . , ; or : removed, whoever wrote it; every other character that is not
\* part of a marker is kept, in order; final_cited_report is not modified.
C17_RewriterFrameAmended ==
    pc = "done" =>
        /\ state["final_report_with_citations"] =
               WithoutSpaceBeforePunctuation(TitleRewrite(hist.pieces), 1)
        /\ ReportUntouched

\* C17 witness: a line break that the composer wrote before a comma is
\* removed, next to a marker that is not registered
C17_Witness ==
    /\ pc = "done"
    /\ hist.pieces = <<Text(<<"X">>), Cite9, Text(<<"\n", ",">>)>>
    /\ state["final_cited_report"] = <<"X">> \o Cite9.text \o <<"\n", ",">>
    /\ state["final_report_with_citations"] = <<"X", ",">>

\* C18: over a run, every source holds exactly one claim for every event,
\* support and chunk-index position that references it, so an invocation
\* of the callback over a history that still holds the events of an
\* earlier invocation appends no second copy of their claims; and an
\* invocation with no new event leaves sources and url_to_short_id as
\* they were.
C18_ClaimsAttachedOnce ==
    /\ [](\A id \in DOMAIN Sources :
              Sources[id].supported_claims
                  = ClaimsOfEvents(Processed, UrlToShortId, id))
    /\ [][(hist'.collects = hist.collects + 1 /\ hist.processed = Len(events))
             => (Sources' = Sources /\ UrlToShortId' = UrlToShortId)]_vars

\* the keys of the session state that the pipeline's stages share
SharedKeys == {"research_evaluation", "section_research_findings", "sources",
               "url_to_short_id", "research_plan", "report_sections",
               "final_cited_report", "final_report_with_citations"}

\* C19: a step of the checker, whether it escalates or lets the loop
\* continue, leaves every key of the shared state as it was, present or
\* absent and with the same value; it only appends its own event, which
\* carries the loop-control signal: the loop ends exactly when the
\* checker escalates, and the iteration count and budget are untouched.
C19_GateFrame ==
    [][pc = "escalation_checker" =>
          /\ DOMAIN state' = DOMAIN state
          /\ \A key \in SharedKeys \cap DOMAIN state : state'[key] = state[key]
          /\ state' = state
          /\ times_looped' = times_looped
          /\ max_iterations' = max_iterations
          /\ error' = "none" =>
                /\ Len(events') = Len(events) + 1
                /\ SubSeq(events', 1, Len(events)) = events
                /\ (loop' = "ESCALATED") = (EscalationDecision(state) = "escalate")
                /\ loop' \in {loop, "ESCALATED"}
                /\ pc' = (IF loop' = "ESCALATED" THEN "report_composer"
                          ELSE "enhanced_search_executor")]_vars

\* C19 witness: the checker has let the loop continue over a failing
\* verdict and then escalated over a passing one, with research data and a
\* registry in the state, and all of it is still there
C19_Witness ==
    /\ pc = "report_composer"
    /\ loop = "ESCALATED"
    /\ Len(hist.stages) >= 3
    /\ hist.stages[Len(hist.stages)] = "Gate:escalate"
    /\ \E k \in 1..Len(hist.stages) : hist.stages[k] = "Gate:continue"
    /\ DOMAIN state = SharedKeys \ {"final_cited_report", "final_report_with_citations"}
    /\ state["research_evaluation"] = Feedback("pass")
    /\ state["section_research_findings"] = "findings"
    /\ DOMAIN Sources = {SrcN(1), SrcN(2)}

=============================================================================
